---- MODULE Spec2Model ----
(***************************************************************************)
(* Visit integrity and badge-claim engine of POLP: the visit controller,   *)
(* the badge controller, the NFT service, the hash utilities, the content  *)
(* store and the POLPBadge ledger contract, as a state machine.  Every     *)
(* awaited call of a request handler is one step, so concurrent requests   *)
(* interleave exactly at the handlers' suspension points.                  *)
(***************************************************************************)
EXTENDS Integers, Sequences, FiniteSets, TLC

(* ---------------------------------------------------------------------- *)
(* Bounds of the model                                                     *)
(* ---------------------------------------------------------------------- *)
MaxVisits == 2
MaxTicks == 1
MaxSlots == 2

(* ---------------------------------------------------------------------- *)
(* Program constants                                                       *)
(* ---------------------------------------------------------------------- *)
RecencyWindowMs == 1800000
MaxAccuracyMeters == 100
BadgeIdSpace == 10000

(* ---------------------------------------------------------------------- *)
(* Input domains                                                           *)
(* ---------------------------------------------------------------------- *)
Slots == 1..MaxSlots
Users == {1, 2}
OwnerAddress == 3
Tags == {"T1", "T2"}
Names == {"A", "B"}
NoTime == -1
TickSteps == {1, RecencyWindowMs + 1}

\* a number as the client sends it: sign, whole degrees, 9 fractional digits
Num(neg, deg, frac) == [num |-> TRUE, neg |-> neg, deg |-> deg, frac |-> frac]
NotANumber == [num |-> FALSE, neg |-> FALSE, deg |-> 0, frac |-> 0]

\* an ISO-8601 string: wall-clock milliseconds and zone offset, or absent
NoTimestamp == [given |-> FALSE, local |-> 0, off |-> 0]
IsoString(local, off) == [given |-> TRUE, local |-> local, off |-> off]

\* the accuracy a client may add to the body: metres, or absent
NoAccuracy == [given |-> FALSE, meters |-> 0]
Meters(m) == [given |-> TRUE, meters |-> m]

Body(nfcTagId, latitude, longitude, timestamp, locationName) ==
  [nfcTagId |-> nfcTagId, latitude |-> latitude, longitude |-> longitude,
   timestamp |-> timestamp, locationName |-> locationName, accuracy |-> NoAccuracy]

\* request bodies of POST /api/visits
BodyMilan == Body("T1", Num(FALSE, 45, 464200001), Num(FALSE, 9, 190000000), IsoString(5000, 0), "A")
BodyMilanAgain == Body("T1", Num(FALSE, 45, 464200004), Num(FALSE, 9, 190000000), IsoString(3605000, 3600000), "A")
BodyRenamed == Body("T1", Num(FALSE, 45, 464200001), Num(FALSE, 9, 190000000), NoTimestamp, "B")
BodyReturn == Body("T1", Num(FALSE, 45, 464200001), Num(FALSE, 9, 190000000), NoTimestamp, "A")
BodyOtherTag == Body("T2", Num(FALSE, 45, 464200001), Num(FALSE, 9, 190000000), NoTimestamp, "A")
BodyNullIsland == Body("T1", Num(FALSE, 0, 0), Num(FALSE, 0, 0), NoTimestamp, "A")
BodyOutOfRange == Body("T1", Num(FALSE, 91, 0), Num(FALSE, 9, 190000000), NoTimestamp, "A")
BodyImprecise == [BodyOtherTag EXCEPT !.accuracy = Meters(MaxAccuracyMeters + 50)]

VisitBodies ==
  {BodyMilan, BodyMilanAgain, BodyRenamed, BodyReturn, BodyOtherTag, BodyNullIsland, BodyOutOfRange,
   BodyImprecise}

VARIABLES
  visits,        \* the visits table, row id = index
  badges,        \* the badges table, row id = index
  ipfs,          \* content store: cid -> bytes returned by cat
  metaStore,     \* metadata objects written by storeMetadata
  nextTokenId,   \* POLPBadge.nextTokenId
  hasClaimed,    \* POLPBadge.hasClaimed, the set of <<badgeId, address>> set true
  tokenOwner,    \* ERC-721 owner of token id i-1
  lastCall,      \* the last transaction sent to POLPBadge and its outcome
  mintLog,       \* successful claimBadge transactions, in order
  now,           \* Date.now()
  ticks,         \* number of clock advances so far
  req,           \* request slots: handler, position, locals, response
  integrityChecked, \* visit ids whose stored payload matched their fingerprint in a verify call
  users,         \* the users table, row id = index
  calc,          \* arguments and results of a function applied on its own
  approvals,     \* ERC-721 operator approvals, the set of <<holder, operator>> set true
  limiter        \* one middleware returned by rateLimit: its Map, and what it answered

vars == <<visits, badges, ipfs, metaStore, nextTokenId, hasClaimed, tokenOwner,
          lastCall, mintLog, now, ticks, req, integrityChecked, users, calc,
          approvals, limiter>>

dbVars == <<visits, badges>>
storeVars == <<ipfs, metaStore>>
ledgerVars == <<nextTokenId, hasClaimed, tokenOwner, lastCall, mintLog, approvals>>
clockVars == <<now, ticks>>

(* ---------------------------------------------------------------------- *)
(* gpsService.validateCoordinates                                          *)
(* ---------------------------------------------------------------------- *)
InRange(x, maxDeg) == x.deg < maxDeg \/ (x.deg = maxDeg /\ x.frac = 0)

IsZero(x) == x.deg = 0 /\ x.frac = 0

\* the validation without its null-island test
validateCoordinates_NoNullIsland(latitude, longitude) ==
  latitude.num /\ longitude.num /\ InRange(latitude, 90) /\ InRange(longitude, 180)

validateCoordinates(latitude, longitude) ==
  IF ~latitude.num \/ ~longitude.num THEN FALSE
  ELSE LET isValidLat == InRange(latitude, 90)
           isValidLng == InRange(longitude, 180)
           isNotNullIsland == ~(IsZero(latitude) /\ IsZero(longitude))
       IN isValidLat /\ isValidLng /\ isNotNullIsland

\* gpsService.validateGPSAccuracy(accuracy, maxAccuracy = 100); no handler calls it
validateGPSAccuracy(accuracy, maxAccuracy) ==
  IF ~accuracy.given \/ accuracy.meters < 0 THEN FALSE
  ELSE accuracy.meters <= maxAccuracy

(* ---------------------------------------------------------------------- *)
(* hashUtils.createVisitHash / verifyVisitHash                             *)
(* ---------------------------------------------------------------------- *)
\* Number.prototype.toFixed(8): the decimal string with 8 fractional digits
ToFixed8(x) ==
  LET f8 == (x.frac + 5) \div 10
      carry == f8 = 100000000
  IN [neg |-> x.neg /\ ~IsZero(x),
      deg |-> IF carry THEN x.deg + 1 ELSE x.deg,
      f8  |-> IF carry THEN 0 ELSE f8]

\* new Date(s).toISOString(): the UTC instant the string denotes
ToISOString(ts) == ts.local - ts.off

\* a fingerprint that leaves the tag out
createVisitHash_NoTag(visitData) ==
  [userId    |-> visitData.userId,
   latitude  |-> ToFixed8(visitData.latitude),
   longitude |-> ToFixed8(visitData.longitude),
   timestamp |-> ToISOString(visitData.timestamp)]

\* SHA-256 of the sorted-key JSON of the normalized data; the digest is
\* modelled by the serialized data itself (collision-free)
createVisitHash(visitData) ==
  [userId    |-> visitData.userId,
   nfcTagId  |-> visitData.nfcTagId,
   latitude  |-> ToFixed8(visitData.latitude),
   longitude |-> ToFixed8(visitData.longitude),
   timestamp |-> ToISOString(visitData.timestamp)]

\* a comparison that accepts every payload
verifyVisitHash_AlwaysTrue(visitData, storedHash) == TRUE

verifyVisitHash(visitData, storedHash) ==
  createVisitHash(visitData) = storedHash

(* ---------------------------------------------------------------------- *)
(* Request slots                                                           *)
(* ---------------------------------------------------------------------- *)
NoRes == [status |-> 0, error |-> ""]
NoLoc == [none |-> TRUE]
Idle == [op |-> "idle", pc |-> "idle", userId |-> 0, loc |-> NoLoc,
         res |-> NoRes, ov |-> {}]

InFlight(s) == req[s].op # "idle" /\ req[s].pc # "done"
IsDone(s, op) == req[s].op = op /\ req[s].pc = "done"

\* a handler begins in slot r; every request then in flight overlaps it
Begin(r, op, userId, pc, loc, res) ==
  [s \in Slots |->
     IF s = r
     THEN [op |-> op, pc |-> pc, userId |-> userId, loc |-> loc, res |-> res,
           ov |-> {t \in Slots \ {r} : InFlight(t)}]
     ELSE IF InFlight(s) THEN [req[s] EXCEPT !.ov = @ \cup {r}] ELSE req[s]]

Goto(r, pc, loc) == [req EXCEPT ![r].pc = pc, ![r].loc = loc]

Respond(r, status, error, loc) ==
  [req EXCEPT ![r].pc = "done", ![r].loc = loc,
              ![r].res = [status |-> status, error |-> error]]

\* the response has been delivered; the slot serves the next request
Recycle(r) ==
  /\ req[r].pc = "done"
  /\ req' = [s \in Slots |->
               IF s = r THEN Idle ELSE [req[s] EXCEPT !.ov = @ \ {r}]]
  /\ UNCHANGED <<dbVars, storeVars, ledgerVars, clockVars, integrityChecked, users, calc, limiter>>

Tick ==
  /\ ticks < MaxTicks
  /\ \E d \in TickSteps : now' = now + d
  /\ ticks' = ticks + 1
  /\ UNCHANGED <<dbVars, storeVars, ledgerVars, req, integrityChecked, users, calc, limiter>>

(* ---------------------------------------------------------------------- *)
(* VisitController.createVisit                                             *)
(* ---------------------------------------------------------------------- *)
CreateVisitsInFlight ==
  Cardinality({s \in Slots : req[s].op = "createVisit" /\ req[s].pc \in {"cv_findDuplicate", "cv_store"}})

\* a recency query that finds nothing
findDuplicates_None(userId, nfcTagId) == {}

\* Visit.findOne({ userId, nfcTagId, createdAt >= Date.now() - 30 min })
findDuplicates(userId, nfcTagId) ==
  {i \in 1..Len(visits) :
     /\ visits[i].userId = userId
     /\ visits[i].nfcTagId = nfcTagId
     /\ visits[i].createdAt >= now - RecencyWindowMs}

\* what a finished createVisit call leaves for inspection; `added` is the
\* content the call put into the store that was not there before
CreateVisitDone(body, uniqueViolation, visitId, recentAtQuery, added) ==
  [nfcTagId |-> body.nfcTagId, accuracy |-> body.accuracy,
   uniqueViolation |-> uniqueViolation, visitId |-> visitId,
   recentAtQuery |-> recentAtQuery, added |-> added]

\* a row for (userId, nfcTagId) was created less than the window ago
RecentlyVisited(userId, nfcTagId) ==
  \E i \in 1..Len(visits) :
    /\ visits[i].userId = userId
    /\ visits[i].nfcTagId = nfcTagId
    /\ now - visits[i].createdAt < RecencyWindowMs

\* lines 11-34: read the body, validate the coordinates
CreateVisit_Validate(r) ==
  /\ req[r].op = "idle"
  /\ Cardinality(DOMAIN ipfs) + CreateVisitsInFlight < MaxVisits
  /\ \E userId \in Users, body \in VisitBodies :
          IF ~validateCoordinates(body.latitude, body.longitude)
          THEN req' = Begin(r, "createVisit", userId, "done",
                            CreateVisitDone(body, FALSE, 0, FALSE, {}),
                            [status |-> 400, error |-> "Invalid GPS coordinates"])
          ELSE req' = Begin(r, "createVisit", userId, "cv_findDuplicate", [body |-> body], NoRes)
  /\ UNCHANGED <<dbVars, storeVars, ledgerVars, clockVars, integrityChecked, users, calc, limiter>>

\* lines 55-63: the visit data object
VisitDataOf(userId, body, at) ==
  [userId |-> userId, nfcTagId |-> body.nfcTagId,
   latitude |-> body.latitude, longitude |-> body.longitude,
   timestamp |-> IF body.timestamp.given THEN body.timestamp ELSE IsoString(at, 0),
   locationName |-> body.locationName]

\* lines 36-65: recent-duplicate query, then the visit data and its hash
CreateVisit_FindDuplicate(r) ==
  /\ req[r].op = "createVisit" /\ req[r].pc = "cv_findDuplicate"
  /\ LET body == req[r].loc.body
         userId == req[r].userId
     IN IF findDuplicates(userId, body.nfcTagId) # {}
        THEN req' = Respond(r, 409, "Duplicate visit detected",
                            CreateVisitDone(body, FALSE, 0, RecentlyVisited(userId, body.nfcTagId), {}))
        ELSE LET visitData == VisitDataOf(userId, body, now)
             IN req' = Goto(r, "cv_store",
                            [body |-> body,
                             recentAtQuery |-> RecentlyVisited(userId, body.nfcTagId),
                             visitData |-> visitData,
                             visitHash |-> createVisitHash(visitData)])
  /\ UNCHANGED <<dbVars, storeVars, ledgerVars, clockVars, integrityChecked, users, calc, limiter>>

\* ipfsService.storeVisitData: the stored bytes carry storedAt; the cid is
\* derived from the bytes, and cat(cid) returns them
storeVisitData(visitData, at) ==
  [userId |-> visitData.userId, nfcTagId |-> visitData.nfcTagId,
   latitude |-> visitData.latitude, longitude |-> visitData.longitude,
   timestamp |-> visitData.timestamp, locationName |-> visitData.locationName,
   storedAt |-> at]

IpfsAdd(bytes) ==
  [c \in DOMAIN ipfs \cup {bytes} |-> IF c = bytes THEN bytes ELSE ipfs[c]]

\* lines 67-71
CreateVisit_Store(r) ==
  /\ req[r].op = "createVisit" /\ req[r].pc = "cv_store"
  /\ LET bytes == storeVisitData(req[r].loc.visitData, now)
     IN /\ ipfs' = IpfsAdd(bytes)
        /\ req' = Goto(r, "cv_create",
                       [body |-> req[r].loc.body,
                        recentAtQuery |-> req[r].loc.recentAtQuery,
                        visitData |-> req[r].loc.visitData,
                        visitHash |-> req[r].loc.visitHash, cid |-> bytes,
                        added |-> {bytes} \ DOMAIN ipfs])
  /\ UNCHANGED <<dbVars, metaStore, ledgerVars, clockVars, integrityChecked, users, calc, limiter>>

\* the row Visit.create inserts (DECIMAL(…, 8) columns keep 8 decimals)
NewVisitRow(userId, visitData, visitHash, cid, at) ==
  [userId |-> userId, nfcTagId |-> visitData.nfcTagId,
   latitude |-> ToFixed8(visitData.latitude),
   longitude |-> ToFixed8(visitData.longitude),
   locationName |-> visitData.locationName,
   visitHash |-> visitHash, ipfsCid |-> cid,
   isVerified |-> FALSE, verifiedAt |-> NoTime, status |-> "pending",
   timestamp |-> ToISOString(visitData.timestamp), createdAt |-> at]

\* the visits table without its unique index
VisitHashTaken_NoIndex(visitHash) == FALSE

\* the unique index on visits.visitHash
VisitHashTaken(visitHash) == \E i \in 1..Len(visits) : visits[i].visitHash = visitHash

\* lines 73-113: insert, answer 201; a rejected insert lands in the catch block
CreateVisit_Create(r) ==
  /\ req[r].op = "createVisit" /\ req[r].pc = "cv_create"
  /\ LET l == req[r].loc
     IN IF VisitHashTaken(l.visitHash)
        THEN /\ req' = Respond(r, 500, "Failed to create visit",
                               CreateVisitDone(l.body, TRUE, 0, l.recentAtQuery, l.added))
             /\ UNCHANGED visits
        ELSE /\ visits' = Append(visits, NewVisitRow(req[r].userId, l.visitData, l.visitHash, l.cid, now))
             /\ req' = Respond(r, 201, "",
                               CreateVisitDone(l.body, FALSE, Len(visits) + 1, l.recentAtQuery, l.added))
  /\ UNCHANGED <<badges, storeVars, ledgerVars, clockVars, integrityChecked, users, calc, limiter>>

(* ---------------------------------------------------------------------- *)
(* Content store seen from outside: stored bytes are replaced              *)
(* ---------------------------------------------------------------------- *)
OtherOf(x, S) == CHOOSE y \in S : y # x

Tamperings(bytes) ==
  { [bytes EXCEPT !.nfcTagId = OtherOf(@, Tags)],
    [bytes EXCEPT !.locationName = OtherOf(@, Names)],
    [bytes EXCEPT !.latitude = Num(@.neg, @.deg, @.frac + 3)] }

Tamper ==
  /\ \E c \in DOMAIN ipfs : \E t \in Tamperings(c) \cup {c} :
       /\ t # ipfs[c]
       /\ ipfs' = [ipfs EXCEPT ![c] = t]
  /\ UNCHANGED <<dbVars, metaStore, ledgerVars, clockVars, req, integrityChecked, users, calc, limiter>>

(* ---------------------------------------------------------------------- *)
(* VisitController.verifyVisitForNFT                                       *)
(* ---------------------------------------------------------------------- *)
\* a lookup by id alone
findVisit_AnyUser(id, userId) == {i \in 1..Len(visits) : i = id}

\* Visit.findOne({ where: { id, userId } })
findVisit(id, userId) ==
  {i \in 1..Len(visits) : i = id /\ visits[i].userId = userId}

\* what a verifyVisitForNFT call leaves for inspection: whether the integrity
\* check ran, whether the payload it read was byte for byte the stored one,
\* and whether the five fingerprinted fields still had their stored values
VerifyDone(id, mismatch, checked, exact, sameFields) ==
  [id |-> id, mismatch |-> mismatch, checked |-> checked, exact |-> exact,
   sameFields |-> sameFields]

\* the fields createVisitHash reads, as it normalizes them
FingerprintedFields(bytes) ==
  <<bytes.userId, bytes.nfcTagId, ToFixed8(bytes.latitude), ToFixed8(bytes.longitude),
    ToISOString(bytes.timestamp)>>

\* lines 271-290
VerifyVisit_Find(r) ==
  /\ req[r].op = "idle"
  /\ \E userId \in Users, id \in 1..(Len(visits) + 1) :
       IF findVisit(id, userId) = {}
       THEN req' = Begin(r, "verifyVisitForNFT", userId, "done",
                         VerifyDone(id, FALSE, FALSE, FALSE, FALSE),
                         [status |-> 404, error |-> "Visit not found"])
       ELSE IF visits[id].isVerified
       THEN req' = Begin(r, "verifyVisitForNFT", userId, "done",
                         VerifyDone(id, FALSE, FALSE, FALSE, FALSE),
                         [status |-> 409, error |-> "Visit already verified"])
       ELSE req' = Begin(r, "verifyVisitForNFT", userId, "vv_getVisitData",
                         [id |-> id, visit |-> visits[id]], NoRes)
  /\ UNCHANGED <<dbVars, storeVars, ledgerVars, clockVars, integrityChecked, users, calc, limiter>>

\* lines 292-300: read the stored payload back and compare fingerprints
VerifyVisit_Check(r) ==
  /\ req[r].op = "verifyVisitForNFT" /\ req[r].pc = "vv_getVisitData"
  /\ LET id == req[r].loc.id
         visit == req[r].loc.visit
         ipfsData == ipfs[visit.ipfsCid]
         isDataIntact == verifyVisitHash(ipfsData, visit.visitHash)
         matched == createVisitHash(ipfsData) = visit.visitHash
         exact == ipfsData = visit.ipfsCid
         sameFields == FingerprintedFields(ipfsData) = FingerprintedFields(visit.ipfsCid)
     IN /\ IF ~isDataIntact
           THEN req' = Respond(r, 400, "Visit data integrity check failed",
                               VerifyDone(id, TRUE, TRUE, exact, sameFields))
           ELSE req' = Goto(r, "vv_update",
                            [id |-> id, visit |-> visit, mismatch |-> ~matched,
                             exact |-> exact, sameFields |-> sameFields])
        /\ integrityChecked' = IF matched THEN integrityChecked \cup {id} ELSE integrityChecked
  /\ UNCHANGED <<dbVars, storeVars, ledgerVars, clockVars, users, calc, limiter>>

\* lines 303-306: visit.update({ isVerified: true, verifiedAt: new Date() })
UpdateVerified(row, at) == [row EXCEPT !.isVerified = TRUE, !.verifiedAt = at]

\* lines 302-318
VerifyVisit_Update(r) ==
  /\ req[r].op = "verifyVisitForNFT" /\ req[r].pc = "vv_update"
  /\ LET id == req[r].loc.id
     IN /\ visits' = [visits EXCEPT ![id] = UpdateVerified(@, now)]
        /\ req' = Respond(r, 200, "",
                          VerifyDone(id, req[r].loc.mismatch, TRUE, req[r].loc.exact,
                                     req[r].loc.sameFields))
  /\ UNCHANGED <<badges, storeVars, ledgerVars, clockVars, integrityChecked, users, calc, limiter>>

(* ---------------------------------------------------------------------- *)
(* POLPBadge.sol                                                           *)
(* ---------------------------------------------------------------------- *)
Addresses == Users \cup {OwnerAddress}

\* a contract that reports no pair as claimed
claimed_Never(user, badgeId) == FALSE

\* function claimed(address user, uint256 badgeId)
claimed(user, badgeId) == <<badgeId, user>> \in hasClaimed

\* claimBadge without its require(!hasClaimed[badgeId][to])
claimBadgeOutcome_NoRequire(caller, to, badgeId) ==
  IF caller # OwnerAddress THEN "OwnableUnauthorizedAccount" ELSE "ok"

\* claimBadge without its onlyOwner modifier
claimBadgeOutcome_NoOwnerCheck(caller, to, badgeId) ==
  IF claimed(to, badgeId) THEN "Already claimed" ELSE "ok"

\* how a claimBadge transaction from msg.sender = caller ends
claimBadgeOutcome(caller, to, badgeId) ==
  IF caller # OwnerAddress THEN "OwnableUnauthorizedAccount"
  ELSE IF claimed(to, badgeId) THEN "Already claimed"
  ELSE "ok"

\* a counter that is never advanced
PostIncrement_Stuck(n) == n

\* POLPBadge.sol line 24: the value nextTokenId++ leaves in nextTokenId
PostIncrement(n) == n + 1

\* function claimBadge(address to, uint256 badgeId, string tokenURI) onlyOwner;
\* a reverted transaction changes no contract storage
claimBadge(caller, to, badgeId) ==
  LET outcome == claimBadgeOutcome(caller, to, badgeId)
      tokenId == nextTokenId
  IN /\ lastCall' = [caller |-> caller, to |-> to, badgeId |-> badgeId,
                     result |-> outcome,
                     tokenId |-> IF outcome = "ok" THEN tokenId ELSE -1,
                     claimedBefore |-> claimed(to, badgeId)]
     /\ IF outcome = "ok"
        THEN /\ nextTokenId' = PostIncrement(nextTokenId)
             /\ tokenOwner' = Append(tokenOwner, to)
             /\ hasClaimed' = hasClaimed \cup {<<badgeId, to>>}
             /\ mintLog' = Append(mintLog, [to |-> to, badgeId |-> badgeId, tokenId |-> tokenId])
        ELSE UNCHANGED <<nextTokenId, tokenOwner, hasClaimed, mintLog>>

(* ---------------------------------------------------------------------- *)
(* NFTService.generateBadgeId                                              *)
(* ---------------------------------------------------------------------- *)
\* the first 8 hex digits of keccak256(utf8(s)), as two 16-bit halves
KeccakPrefix(s) ==
  CASE s = "T1A" -> <<952, 51561>>
    [] s = "T1B" -> <<18112, 29548>>
    [] s = "T2A" -> <<64867, 46719>>
    [] s = "T2B" -> <<34033, 52782>>

\* parseInt(locationHash.slice(0, 10), 16) % 10000
generateBadgeId(visit) ==
  LET h == KeccakPrefix(visit.nfcTagId \o visit.locationName)
  IN ((h[1] % BadgeIdSpace) * (65536 % BadgeIdSpace) + h[2]) % BadgeIdSpace

(* ---------------------------------------------------------------------- *)
(* BadgeController.mintBadge with NFTService.mintBadge                     *)
(* ---------------------------------------------------------------------- *)
\* User.walletAddress of the user row
WalletOf(userId) == userId

\* a claim query that is never put to the contract
hasClaimedBadge_NoQuery(userAddress, badgeId) == FALSE

\* NFTService.hasClaimedBadge: await this.contract.claimed(userAddress, badgeId)
hasClaimedBadge(userAddress, badgeId) == claimed(userAddress, badgeId)

\* Badge.findOne({ where: { visitId, userId } })
findBadge(visitId, userId) ==
  {i \in 1..Len(badges) : badges[i].visitId = visitId /\ badges[i].userId = userId}

\* the badge rows of a user for a badge category
findClaim(userId, badgeId) ==
  {i \in 1..Len(badges) : badges[i].userId = userId /\ badges[i].badgeId = badgeId}

MintLoc(visitId) ==
  [visitId |-> visitId, badgeId |-> -1, metadataUri |-> <<>>, nextTokenId |-> -1,
   txHash |-> 0, tokenId |-> -1,
   claimedAtStart |-> FALSE, passedCheck |-> FALSE, ledgerRejected |-> FALSE,
   wroteStore |-> FALSE, queriedUnclaimed |-> FALSE, timedOut |-> FALSE,
   claimedViaOther |-> FALSE]

\* a guard that lets every visit through
VisitIsVerified_Always(visit) == TRUE

\* part_008 line 57: visit.isVerified
VisitIsVerified(visit) == visit.isVerified

\* part_008 lines 41-61: load the visit, require it verified
MintBadge_FindVisit(r) ==
  /\ req[r].op = "idle"
  /\ \E userId \in Users, visitId \in 1..(Len(visits) + 1) :
       IF findVisit(visitId, userId) = {}
       THEN req' = Begin(r, "mintBadge", userId, "done", MintLoc(visitId),
                         [status |-> 404, error |-> "Visit not found"])
       ELSE IF ~VisitIsVerified(visits[visitId])
       THEN req' = Begin(r, "mintBadge", userId, "done", MintLoc(visitId),
                         [status |-> 400, error |-> "Visit must be verified before minting badge"])
       ELSE req' = Begin(r, "mintBadge", userId, "mb_findBadge",
                         [MintLoc(visitId) EXCEPT !.claimedAtStart =
                            /\ claimed(WalletOf(userId), generateBadgeId(visits[visitId]))
                            /\ findClaim(userId, generateBadgeId(visits[visitId])) = {}
                            /\ \A s \in Slots \ {r} : ~InFlight(s),
                          !.claimedViaOther =
                            /\ <<generateBadgeId(visits[visitId]), WalletOf(userId)>> \in hasClaimed
                            /\ \E i \in findClaim(userId, generateBadgeId(visits[visitId])) :
                                  badges[i].visitId # visitId],
                         NoRes)
  /\ UNCHANGED <<dbVars, storeVars, ledgerVars, clockVars, integrityChecked, users, calc, limiter>>

\* part_008 lines 63-80: one badge row per visit; the user row
MintBadge_FindBadge(r) ==
  /\ req[r].op = "mintBadge" /\ req[r].pc = "mb_findBadge"
  /\ IF findBadge(req[r].loc.visitId, req[r].userId) # {}
     THEN req' = Respond(r, 409, "Badge already minted for this visit", req[r].loc)
     ELSE req' = Goto(r, "mb_storeMetadata", req[r].loc)
  /\ UNCHANGED <<dbVars, storeVars, ledgerVars, clockVars, integrityChecked, users, calc, limiter>>

\* ipfsService.storeMetadata: the stored object carries created_at
storeMetadata(visitId, visit) ==
  [visitId |-> visitId, visitHash |-> visit.visitHash, created_at |-> now]

\* part_008 lines 82-121: metadata to the content store, then the badge id
MintBadge_StoreMetadata(r) ==
  /\ req[r].op = "mintBadge" /\ req[r].pc = "mb_storeMetadata"
  /\ LET visit == visits[req[r].loc.visitId]
         metadata == storeMetadata(req[r].loc.visitId, visit)
     IN /\ metaStore' = metaStore \cup {metadata}
        /\ req' = Goto(r, "mb_hasClaimed",
                       [req[r].loc EXCEPT !.metadataUri = <<metadata>>,
                                          !.badgeId = generateBadgeId(visit),
                                          !.wroteStore = TRUE])
  /\ UNCHANGED <<dbVars, ipfs, ledgerVars, clockVars, integrityChecked, users, calc, limiter>>

\* part_008 lines 123-133: nftService.hasClaimedBadge
MintBadge_HasClaimed(r) ==
  /\ req[r].op = "mintBadge" /\ req[r].pc = "mb_hasClaimed"
  /\ IF hasClaimedBadge(WalletOf(req[r].userId), req[r].loc.badgeId)
     THEN req' = Respond(r, 409, "Badge type already claimed by this user", req[r].loc)
     ELSE req' = Goto(r, "nft_hasClaimed", [req[r].loc EXCEPT !.passedCheck = TRUE])
  /\ UNCHANGED <<dbVars, storeVars, ledgerVars, clockVars, integrityChecked, users, calc, limiter>>

\* the catch block of the controller, reached by every throw of
\* nftService.mintBadge; rejected: the contract itself refused the claim
MintFailed(r, rejected) ==
  Respond(r, 500, "Failed to mint badge", [req[r].loc EXCEPT !.ledgerRejected = rejected])

\* gpsService.js lines 361-365: the service's own claimed check
NFT_HasClaimed(r) ==
  /\ req[r].op = "mintBadge" /\ req[r].pc = "nft_hasClaimed"
  /\ IF hasClaimedBadge(WalletOf(req[r].userId), req[r].loc.badgeId)
     THEN req' = MintFailed(r, FALSE)
     ELSE req' = Goto(r, "nft_nextTokenId",
                      [req[r].loc EXCEPT !.queriedUnclaimed =
                         <<req[r].loc.badgeId, WalletOf(req[r].userId)>> \notin hasClaimed])
  /\ UNCHANGED <<dbVars, storeVars, ledgerVars, clockVars, integrityChecked, users, calc, limiter>>

\* gpsService.js lines 367-368: const nextTokenId = await this.contract.nextTokenId()
NFT_NextTokenId(r) ==
  /\ req[r].op = "mintBadge" /\ req[r].pc = "nft_nextTokenId"
  /\ req' = Goto(r, "nft_estimateGas", [req[r].loc EXCEPT !.nextTokenId = nextTokenId])
  /\ UNCHANGED <<dbVars, storeVars, ledgerVars, clockVars, integrityChecked, users, calc, limiter>>

\* gpsService.js lines 370-375: estimateGas simulates the call and throws if it reverts
NFT_EstimateGas(r) ==
  /\ req[r].op = "mintBadge" /\ req[r].pc = "nft_estimateGas"
  /\ IF claimBadgeOutcome(OwnerAddress, WalletOf(req[r].userId), req[r].loc.badgeId) # "ok"
     THEN req' = MintFailed(r, TRUE)
     ELSE req' = Goto(r, "nft_send", req[r].loc)
  /\ UNCHANGED <<dbVars, storeVars, ledgerVars, clockVars, integrityChecked, users, calc, limiter>>

\* gpsService.js lines 377-401: send the transaction, wait for the receipt;
\* the result names the token id read before sending. tx.wait() may throw
\* (timeout, lost connection) although the transaction is mined
NFT_Send(r) ==
  /\ req[r].op = "mintBadge" /\ req[r].pc = "nft_send"
  /\ claimBadge(OwnerAddress, WalletOf(req[r].userId), req[r].loc.badgeId)
  /\ IF claimBadgeOutcome(OwnerAddress, WalletOf(req[r].userId), req[r].loc.badgeId) # "ok"
     THEN req' = MintFailed(r, TRUE)
     ELSE \E receipt \in BOOLEAN :
            IF receipt
            THEN req' = Goto(r, "mb_create",
                             [req[r].loc EXCEPT !.txHash = Len(mintLog) + 1,
                                                !.tokenId = req[r].loc.nextTokenId])
            ELSE req' = Respond(r, 500, "Failed to mint badge",
                                [req[r].loc EXCEPT !.timedOut = TRUE])
  /\ UNCHANGED <<dbVars, storeVars, clockVars, integrityChecked, users, calc, approvals, limiter>>

\* the unique indexes on badges.tokenId and badges.txHash
BadgeKeyTaken(tokenId, txHash) ==
  \E i \in 1..Len(badges) : badges[i].tokenId = tokenId \/ badges[i].txHash = txHash

\* part_008 lines 142-183: insert the badge row, answer 201
MintBadge_Create(r) ==
  /\ req[r].op = "mintBadge" /\ req[r].pc = "mb_create"
  /\ LET l == req[r].loc
     IN IF BadgeKeyTaken(l.tokenId, l.txHash)
        THEN /\ req' = MintFailed(r, FALSE)
             /\ UNCHANGED badges
        ELSE /\ badges' = Append(badges,
                    [userId |-> req[r].userId, visitId |-> l.visitId, tokenId |-> l.tokenId,
                     badgeId |-> l.badgeId, txHash |-> l.txHash,
                     metadataUri |-> l.metadataUri, mintedAt |-> now])
             /\ req' = Respond(r, 201, "", l)
  /\ UNCHANGED <<visits, storeVars, ledgerVars, clockVars, integrityChecked, users, calc, limiter>>

(* ---------------------------------------------------------------------- *)
(* Transactions sent to the contract by any account                        *)
(* ---------------------------------------------------------------------- *)
LedgerBadgeIds == {generateBadgeId([nfcTagId |-> "T1", locationName |-> n]) : n \in Names}

ClaimBadgeTx ==
  /\ \E caller \in Addresses, to \in Addresses, badgeId \in LedgerBadgeIds :
       claimBadge(caller, to, badgeId)
  /\ UNCHANGED <<dbVars, storeVars, clockVars, req, integrityChecked, users, calc, approvals, limiter>>

(* ---------------------------------------------------------------------- *)
(* AuthController.login with WalletService                                 *)
(* ---------------------------------------------------------------------- *)
\* an address string: the account it names, and whether its hex digits are
\* written in mixed (checksum) case or in lower case
Address(account, mixedCase) == [account |-> account, mixedCase |-> mixedCase]

\* String.prototype.toLowerCase on an address string
toLowerCase(address) == [address EXCEPT !.mixedCase = FALSE]

Nonces == {"n1", "n2"}

\* WalletService.generateAuthChallenge: the text names the wallet, a timestamp
\* and Math.random().toString(36).substring(7); no route calls it and no
\* issued challenge is kept
generateAuthChallenge(walletAddress, timestamp, nonce) ==
  [wallet |-> walletAddress, timestamp |-> timestamp, nonce |-> nonce]

\* the personal_sign signature of message under the key of account
Sign(account, message) == [signer |-> account, message |-> message]

\* the address no account of the model holds
NoAccount == 0

\* ethers.verifyMessage(message, signature): the checksum address of the key
\* that signed, when the signature is over this message; else an unrelated one
verifyMessage(message, signature) ==
  IF signature.message = message THEN Address(signature.signer, TRUE)
  ELSE Address(NoAccount, TRUE)

\* WalletService.verifySignature
verifySignature(walletAddress, signature, message) ==
  LET recoveredAddress == verifyMessage(message, signature)
  IN toLowerCase(recoveredAddress) = toLowerCase(walletAddress)

LoginAddresses == {Address(a, m) : a \in Users, m \in BOOLEAN}
\* challenges made out for the wallet of account 1; login does not read the text
Messages == {generateAuthChallenge(Address(1, TRUE), 0, n) : n \in Nonces}
Signatures == {Sign(a, m) : a \in Users, m \in Messages}

\* User.findOne({ where: { walletAddress } })
findUser(walletAddress) ==
  {i \in 1..Len(users) : users[i].walletAddress = walletAddress}

\* what a login call holds and leaves for inspection
LoginLoc(walletAddress, message, signature, found) ==
  [walletAddress |-> walletAddress, message |-> message, signature |-> signature,
   found |-> found]

\* authController.js lines 12-27: read the body, verify the signature
Login_Verify(r) ==
  /\ req[r].op = "idle"
  /\ \E walletAddress \in LoginAddresses, message \in Messages, signature \in Signatures :
       IF ~verifySignature(walletAddress, signature, message)
       THEN req' = Begin(r, "login", 0, "done", LoginLoc(walletAddress, message, signature, 0),
                         [status |-> 401, error |-> "Invalid wallet signature"])
       ELSE req' = Begin(r, "login", 0, "lg_findUser",
                         LoginLoc(walletAddress, message, signature, 0), NoRes)
  /\ UNCHANGED <<dbVars, storeVars, ledgerVars, clockVars, integrityChecked, users, calc, limiter>>

\* authController.js lines 29-32: look the user up by lower-cased address
Login_FindUser(r) ==
  /\ req[r].op = "login" /\ req[r].pc = "lg_findUser"
  /\ LET rows == findUser(toLowerCase(req[r].loc.walletAddress))
     IN req' = Goto(r, "lg_save",
                    [req[r].loc EXCEPT !.found = IF rows = {} THEN 0 ELSE CHOOSE i \in rows : TRUE])
  /\ UNCHANGED <<dbVars, storeVars, ledgerVars, clockVars, integrityChecked, users, calc, limiter>>

\* authController.js lines 34-76: register or touch the user, sign the token,
\* answer 200; an insert refused by the unique index on walletAddress lands in
\* the catch block
Login_Save(r) ==
  /\ req[r].op = "login" /\ req[r].pc = "lg_save"
  /\ LET l == req[r].loc
         walletAddress == toLowerCase(l.walletAddress)
     IN IF l.found = 0
        THEN IF findUser(walletAddress) # {}
             THEN /\ req' = Respond(r, 500, "Login failed", l)
                  /\ UNCHANGED users
             ELSE /\ users' = Append(users, [walletAddress |-> walletAddress, lastLoginAt |-> now])
                  /\ req' = [Respond(r, 200, "", l) EXCEPT ![r].userId = Len(users) + 1]
        ELSE /\ users' = [users EXCEPT ![l.found].lastLoginAt = now]
             /\ req' = [Respond(r, 200, "", l) EXCEPT ![r].userId = l.found]
  /\ UNCHANGED <<dbVars, storeVars, ledgerVars, clockVars, integrityChecked, calc, limiter>>

(* ---------------------------------------------------------------------- *)
(* ERC-721 transfers of POLPBadge tokens (inherited from ERC721URIStorage) *)
(* ---------------------------------------------------------------------- *)
\* the token ids minted so far
TokenIds == 0..(Len(tokenOwner) - 1)

\* ownerOf(tokenId) of an existing token
ownerOf(tokenId) == tokenOwner[tokenId + 1]

\* the badge id a token was minted for; the contract keeps no such record
CategoryOf(tokenId) == mintLog[tokenId + 1].badgeId

\* ERC721._isAuthorized without per-token approvals: the holder, or an
\* operator the holder has approved for all tokens
isAuthorized(owner, spender) == spender = owner \/ <<owner, spender>> \in approvals

\* how transferFrom(from, to, tokenId) sent by caller ends
transferFromOutcome(caller, from, to, tokenId) ==
  IF tokenId \notin TokenIds THEN "ERC721NonexistentToken"
  ELSE IF ~isAuthorized(ownerOf(tokenId), caller) THEN "ERC721InsufficientApproval"
  ELSE IF ownerOf(tokenId) # from THEN "ERC721IncorrectOwner"
  ELSE "ok"

\* transferFrom: moves the token; hasClaimed and nextTokenId are not touched
transferFrom(caller, from, to, tokenId) ==
  /\ IF transferFromOutcome(caller, from, to, tokenId) = "ok"
     THEN tokenOwner' = [tokenOwner EXCEPT ![tokenId + 1] = to]
     ELSE UNCHANGED tokenOwner
  /\ UNCHANGED <<nextTokenId, hasClaimed, lastCall, mintLog, approvals>>

\* a transfer sent to the contract by any account
TransferFromTx ==
  /\ \E caller \in Addresses, to \in Addresses, tokenId \in TokenIds :
       /\ transferFromOutcome(caller, ownerOf(tokenId), to, tokenId) = "ok"
       /\ to # ownerOf(tokenId)
       /\ transferFrom(caller, ownerOf(tokenId), to, tokenId)
  /\ UNCHANGED <<dbVars, storeVars, clockVars, req, integrityChecked, users, calc, limiter>>

\* setApprovalForAll(operator, approved) sent by a user's wallet for the
\* backend signer
SetApprovalForAllTx ==
  /\ \E holder \in Users, approved \in BOOLEAN :
       /\ approvals' = IF approved THEN approvals \cup {<<WalletOf(holder), OwnerAddress>>}
                       ELSE approvals \ {<<WalletOf(holder), OwnerAddress>>}
       /\ approvals' # approvals
  /\ UNCHANGED <<nextTokenId, hasClaimed, tokenOwner, lastCall, mintLog>>
  /\ UNCHANGED <<dbVars, storeVars, clockVars, req, integrityChecked, users, calc, limiter>>

(* ---------------------------------------------------------------------- *)
(* BadgeController.transferBadge with NFTService.transferBadge             *)
(* ---------------------------------------------------------------------- *)
\* Badge.findOne({ where: { tokenId, userId } })
findBadgeByToken(tokenId, userId) ==
  {i \in 1..Len(badges) : badges[i].tokenId = tokenId /\ badges[i].userId = userId}

\* what a transferBadge call holds and leaves for inspection: the row it
\* loaded, whether the transaction was mined, and, when it answers 200,
\* whether the row then names the user whose wallet the call's transaction
\* gave the token to
TransferLoc(tokenId, toAddress, badge) ==
  [tokenId |-> tokenId, toAddress |-> toAddress, badge |-> badge, mined |-> FALSE,
   rowUpdated |-> FALSE, rowOwnerHoldsToken |-> FALSE]

TransferFailed(r) == Respond(r, 500, "Failed to transfer badge", req[r].loc)

\* part_008 lines 254-275: load the badge row of the caller, then the caller's
\* user row (present for every authenticated user of the model)
TransferBadge_FindBadge(r) ==
  /\ req[r].op = "idle"
  /\ \E userId \in Users, tokenId \in 0..nextTokenId, toAddress \in Addresses :
       LET rows == findBadgeByToken(tokenId, userId)
       IN IF rows = {}
          THEN req' = Begin(r, "transferBadge", userId, "done",
                            TransferLoc(tokenId, toAddress, 0),
                            [status |-> 404, error |-> "Badge not found"])
          ELSE req' = Begin(r, "transferBadge", userId, "tb_ownerOf",
                            TransferLoc(tokenId, toAddress, CHOOSE i \in rows : TRUE), NoRes)
  /\ UNCHANGED <<dbVars, storeVars, ledgerVars, clockVars, integrityChecked, users, calc, limiter>>

\* gpsService.js lines 420-424: the service's ownership check
TransferBadge_OwnerOf(r) ==
  /\ req[r].op = "transferBadge" /\ req[r].pc = "tb_ownerOf"
  /\ IF req[r].loc.tokenId \notin TokenIds
        \/ ownerOf(req[r].loc.tokenId) # WalletOf(req[r].userId)
     THEN req' = TransferFailed(r)
     ELSE req' = Goto(r, "tb_estimateGas", req[r].loc)
  /\ UNCHANGED <<dbVars, storeVars, ledgerVars, clockVars, integrityChecked, users, calc, limiter>>

\* gpsService.js lines 426-431: estimateGas simulates the transfer as sent by
\* the backend signer and throws if it reverts
TransferBadge_EstimateGas(r) ==
  /\ req[r].op = "transferBadge" /\ req[r].pc = "tb_estimateGas"
  /\ IF transferFromOutcome(OwnerAddress, WalletOf(req[r].userId),
                            req[r].loc.toAddress, req[r].loc.tokenId) # "ok"
     THEN req' = TransferFailed(r)
     ELSE req' = Goto(r, "tb_send", req[r].loc)
  /\ UNCHANGED <<dbVars, storeVars, ledgerVars, clockVars, integrityChecked, users, calc, limiter>>

\* gpsService.js lines 433-444: send the transfer, wait for the receipt;
\* tx.wait() may throw although the transaction is mined
TransferBadge_Send(r) ==
  /\ req[r].op = "transferBadge" /\ req[r].pc = "tb_send"
  /\ LET from == WalletOf(req[r].userId)
         to == req[r].loc.toAddress
         tokenId == req[r].loc.tokenId
     IN /\ transferFrom(OwnerAddress, from, to, tokenId)
        /\ IF transferFromOutcome(OwnerAddress, from, to, tokenId) # "ok"
           THEN req' = TransferFailed(r)
           ELSE \E receipt \in BOOLEAN :
                  IF receipt
                  THEN req' = Goto(r, "tb_update", [req[r].loc EXCEPT !.mined = TRUE])
                  ELSE req' = Respond(r, 500, "Failed to transfer badge",
                                      [req[r].loc EXCEPT !.mined = TRUE])
  /\ UNCHANGED <<dbVars, storeVars, clockVars, integrityChecked, users, calc, limiter>>

\* badge.update({ userId, transferredAt }) on the loaded row
UpdateOwner(row, userId, at) ==
  [f \in DOMAIN row \cup {"transferredAt"} |->
     IF f = "userId" THEN userId
     ELSE IF f = "transferredAt" THEN at
     ELSE row[f]]

\* part_008 lines 284-302: look the recipient up by lower-cased address,
\* re-assign the row when a user is found, answer 200
TransferBadge_Update(r) ==
  /\ req[r].op = "transferBadge" /\ req[r].pc = "tb_update"
  /\ LET l == req[r].loc
         newOwner == findUser(toLowerCase(Address(l.toAddress, TRUE)))
     IN /\ IF newOwner # {}
           THEN badges' = [badges EXCEPT ![l.badge] =
                             UpdateOwner(@, CHOOSE i \in newOwner : TRUE, now)]
           ELSE UNCHANGED badges
        /\ req' = Respond(r, 200, "",
                          [l EXCEPT !.rowUpdated = (newOwner # {}),
                                    !.rowOwnerHoldsToken =
                                       WalletOf(badges'[l.badge].userId) = l.toAddress])
  /\ UNCHANGED <<visits, storeVars, ledgerVars, clockVars, integrityChecked, users, calc, limiter>>

(* ---------------------------------------------------------------------- *)
(* AuthMiddleware.rateLimit(maxRequests, windowMs)                         *)
(* ---------------------------------------------------------------------- *)
\* the arguments the middleware is made with, and how far its clock and its
\* request count run
RateMaxRequests == 2
RateWindowMs == 3
MaxRateTime == 7
MaxRateRequests == 7

\* req.user of a request that carries no valid token
NoUser == 0

\* const requests = new Map(); nothing answered yet
FreshLimiter ==
  [requests |-> <<>>,
   passed |-> [u \in Users |-> <<>>],
   last |-> [userId |-> NoUser, status |-> 0, at |-> 0],
   served |-> 0]

\* requests.get(userId) || []
GetRequests(requests, userId) ==
  IF userId \in DOMAIN requests THEN requests[userId] ELSE <<>>

\* requests.set(userId, list)
SetRequests(requests, userId, list) ==
  [u \in DOMAIN requests \cup {userId} |-> IF u = userId THEN list ELSE requests[u]]

\* userRequests.filter(timestamp => timestamp > windowStart)
FilterWindow(userRequests, windowStart) ==
  SelectSeq(userRequests, LAMBDA timestamp : timestamp > windowStart)

\* cleanupRateLimitData: drop stale timestamps, delete users left with none
cleanupRateLimitData(requests, windowStart) ==
  LET kept == {u \in DOMAIN requests : FilterWindow(requests[u], windowStart) # <<>>}
  IN [u \in kept |-> FilterWindow(requests[u], windowStart)]

\* a limit that lets one request too many through
LimitExceeded_OffByOne(length, maxRequests) == length > maxRequests

\* part_005 line 192: userRequests.length >= maxRequests
LimitExceeded(length, maxRequests) == length >= maxRequests

\* the middleware handles one request; it runs without awaiting anything
RateLimit ==
  /\ limiter.served < MaxRateRequests
  /\ \E userId \in Users \cup {NoUser}, cleanup \in BOOLEAN :
       IF userId = NoUser
       THEN limiter' = [limiter EXCEPT !.served = @ + 1,
                                       !.last = [userId |-> NoUser, status |-> 200, at |-> now]]
       ELSE LET windowStart == now - RateWindowMs
                userRequests == FilterWindow(GetRequests(limiter.requests, userId), windowStart)
                stored == SetRequests(limiter.requests, userId, Append(userRequests, now))
            IN IF LimitExceeded(Len(userRequests), RateMaxRequests)
               THEN limiter' = [limiter EXCEPT !.served = @ + 1,
                                               !.last = [userId |-> userId, status |-> 429, at |-> now]]
               ELSE limiter' = [limiter EXCEPT
                                  !.served = @ + 1,
                                  !.requests = IF cleanup
                                               THEN cleanupRateLimitData(stored, windowStart)
                                               ELSE stored,
                                  !.passed[userId] = Append(@, now),
                                  !.last = [userId |-> userId, status |-> 200, at |-> now]]
  /\ UNCHANGED <<dbVars, storeVars, ledgerVars, clockVars, req, integrityChecked, users, calc>>

\* Date.now() advances by a millisecond
RateTick ==
  /\ now < MaxRateTime
  /\ now' = now + 1
  /\ UNCHANGED <<dbVars, storeVars, ledgerVars, ticks, req, integrityChecked, users, calc, limiter>>

(* ---------------------------------------------------------------------- *)
(* Specifications                                                          *)
(* ---------------------------------------------------------------------- *)
\* the users table with one row per account of Users, wallet address lower-cased
RegisteredUsers ==
  [u \in Users |-> [walletAddress |-> toLowerCase(Address(WalletOf(u), TRUE)), lastLoginAt |-> 0]]

\* no function has been applied on its own
NoCalc == [fn |-> "none"]

NoCall == [caller |-> OwnerAddress, to |-> OwnerAddress, badgeId |-> 0,
           result |-> "none", tokenId |-> -1, claimedBefore |-> FALSE]

\* the state after construction: empty tables, empty store, fresh contract
Init ==
  /\ visits = <<>>
  /\ badges = <<>>
  /\ ipfs = <<>>
  /\ metaStore = {}
  /\ nextTokenId = 0
  /\ hasClaimed = {}
  /\ tokenOwner = <<>>
  /\ lastCall = NoCall
  /\ mintLog = <<>>
  /\ now = 0
  /\ ticks = 0
  /\ req = [s \in Slots |-> Idle]
  /\ integrityChecked = {}
  /\ users = RegisteredUsers
  /\ calc = NoCalc
  /\ approvals = {}
  /\ limiter = FreshLimiter

NextAdmit ==
  \/ \E r \in Slots : CreateVisit_Validate(r)
  \/ \E r \in Slots : CreateVisit_FindDuplicate(r)
  \/ \E r \in Slots : CreateVisit_Store(r)
  \/ \E r \in Slots : CreateVisit_Create(r)
  \/ \E r \in Slots : Recycle(r)
  \/ Tick

SpecAdmit == Init /\ [][NextAdmit]_vars

\* the row and the stored bytes a createVisit call running alone leaves behind
AdmittedRow(userId, body, at) ==
  LET visitData == VisitDataOf(userId, body, at)
  IN NewVisitRow(userId, visitData, createVisitHash(visitData), storeVisitData(visitData, at), at)

\* the same row once a verifyVisitForNFT call running alone has accepted it
VisitAt(userId, body, at, verified) ==
  IF verified THEN UpdateVerified(AdmittedRow(userId, body, at), at)
  ELSE AdmittedRow(userId, body, at)

\* two users have each had a visit admitted; nothing is verified yet
InitVerify ==
  /\ now = 0
  /\ ticks = 0
  /\ visits = <<VisitAt(1, BodyMilan, 0, FALSE), VisitAt(2, BodyOtherTag, 0, FALSE)>>
  /\ ipfs = [c \in {visits[i].ipfsCid : i \in 1..Len(visits)} |-> c]
  /\ badges = <<>>
  /\ metaStore = {}
  /\ nextTokenId = 0
  /\ hasClaimed = {}
  /\ tokenOwner = <<>>
  /\ lastCall = NoCall
  /\ mintLog = <<>>
  /\ req = [s \in Slots |-> Idle]
  /\ integrityChecked = {}
  /\ users = RegisteredUsers
  /\ calc = NoCalc
  /\ approvals = {}
  /\ limiter = FreshLimiter

NextVerify ==
  \/ \E r \in Slots : VerifyVisit_Find(r)
  \/ \E r \in Slots : VerifyVisit_Check(r)
  \/ \E r \in Slots : VerifyVisit_Update(r)
  \/ \E r \in Slots : Recycle(r)
  \/ Tamper
  \/ Tick

SpecVerify == InitVerify /\ [][NextVerify]_vars

\* both users hold verified visits at tag T1 (user 1 two of them, the second
\* after the recency window); user 2's visit at T2 is still pending
InitBadge ==
  /\ ticks = 0
  /\ now = RecencyWindowMs + 1
  /\ visits = <<VisitAt(1, BodyMilan, 0, TRUE), VisitAt(1, BodyReturn, RecencyWindowMs + 1, TRUE),
                VisitAt(2, BodyMilan, 0, TRUE), VisitAt(2, BodyOtherTag, 0, FALSE)>>
  /\ ipfs = [c \in {visits[i].ipfsCid : i \in 1..Len(visits)} |-> c]
  /\ badges = <<>>
  /\ metaStore = {}
  /\ nextTokenId = 0
  /\ hasClaimed = {}
  /\ tokenOwner = <<>>
  /\ lastCall = NoCall
  /\ mintLog = <<>>
  /\ req = [s \in Slots |-> Idle]
  /\ integrityChecked = {i \in 1..Len(visits) : visits[i].isVerified}
  /\ users = RegisteredUsers
  /\ calc = NoCalc
  /\ approvals = {}
  /\ limiter = FreshLimiter

NextBadge ==
  \/ \E r \in Slots : MintBadge_FindVisit(r)
  \/ \E r \in Slots : MintBadge_FindBadge(r)
  \/ \E r \in Slots : MintBadge_StoreMetadata(r)
  \/ \E r \in Slots : MintBadge_HasClaimed(r)
  \/ \E r \in Slots : NFT_HasClaimed(r)
  \/ \E r \in Slots : NFT_NextTokenId(r)
  \/ \E r \in Slots : NFT_EstimateGas(r)
  \/ \E r \in Slots : NFT_Send(r)
  \/ \E r \in Slots : MintBadge_Create(r)
  \/ \E r \in Slots : Recycle(r)

SpecBadge == InitBadge /\ [][NextBadge]_vars

\* a fresh deployment: nobody has logged in yet
InitAuth ==
  /\ visits = <<>>
  /\ badges = <<>>
  /\ ipfs = <<>>
  /\ metaStore = {}
  /\ nextTokenId = 0
  /\ hasClaimed = {}
  /\ tokenOwner = <<>>
  /\ lastCall = NoCall
  /\ mintLog = <<>>
  /\ now = 0
  /\ ticks = 0
  /\ req = [s \in Slots |-> Idle]
  /\ integrityChecked = {}
  /\ users = <<>>
  /\ calc = NoCalc
  /\ approvals = {}
  /\ limiter = FreshLimiter

NextAuth ==
  \/ \E r \in Slots : Login_Verify(r)
  \/ \E r \in Slots : Login_FindUser(r)
  \/ \E r \in Slots : Login_Save(r)
  \/ \E r \in Slots : Recycle(r)
  \/ Tick

SpecAuth == InitAuth /\ [][NextAuth]_vars

\* the number x rounded to 8 decimal places, as a number: a negative value
\* that rounds to zero becomes -0
Round8(x) ==
  LET f8 == (x.frac + 5) \div 10
  IN IF f8 = 100000000 THEN Num(x.neg, x.deg + 1, 0) ELSE Num(x.neg, x.deg, f8 * 10)

HashLatitudes ==
  {Num(FALSE, 45, 464200001), Num(FALSE, 45, 464200004), Num(FALSE, 45, 464200005),
   Num(FALSE, 89, 999999995), Num(TRUE, 45, 464200001), Num(TRUE, 0, 4)}

HashLongitudes ==
  {Num(FALSE, 9, 190000000), Num(FALSE, 179, 999999996), Num(TRUE, 0, 4)}

HashTimestamps == {IsoString(5000, 0), IsoString(3605000, 3600000)}

\* valid arguments of hashUtils.createVisitHash
HashInputs ==
  {vd \in [userId : Users, nfcTagId : Tags, latitude : HashLatitudes,
           longitude : HashLongitudes, timestamp : HashTimestamps, locationName : {"A"}] :
     validateCoordinates(vd.latitude, vd.longitude)}

\* createVisitHash is about to be called on some valid visit data
InitHash ==
  /\ visits = <<>>
  /\ badges = <<>>
  /\ ipfs = <<>>
  /\ metaStore = {}
  /\ nextTokenId = 0
  /\ hasClaimed = {}
  /\ tokenOwner = <<>>
  /\ lastCall = NoCall
  /\ mintLog = <<>>
  /\ now = 0
  /\ ticks = 0
  /\ req = [s \in Slots |-> Idle]
  /\ integrityChecked = {}
  /\ users = RegisteredUsers
  /\ approvals = {}
  /\ limiter = FreshLimiter
  /\ calc \in {[fn |-> "createVisitHash", phase |-> "args", visitData |-> vd] : vd \in HashInputs}

\* the hash of the data, of the same data again, and of the data with the
\* latitude or the longitude replaced by its value rounded to 8 decimals
ApplyCreateVisitHash ==
  /\ calc.fn = "createVisitHash" /\ calc.phase = "args"
  /\ LET vd == calc.visitData
     IN calc' = [fn |-> "createVisitHash", phase |-> "done", visitData |-> vd,
                 first |-> createVisitHash(vd),
                 second |-> createVisitHash(vd),
                 roundedLat |-> createVisitHash([vd EXCEPT !.latitude = Round8(@)]),
                 roundedLon |-> createVisitHash([vd EXCEPT !.longitude = Round8(@)])]
  /\ UNCHANGED <<dbVars, storeVars, ledgerVars, clockVars, req, integrityChecked, users, limiter>>

NextHash == ApplyCreateVisitHash

SpecHash == InitHash /\ [][NextHash]_vars

CoordLatitudes ==
  {NotANumber, Num(FALSE, 0, 0), Num(TRUE, 0, 0), Num(FALSE, 0, 1), Num(FALSE, 45, 0),
   Num(TRUE, 45, 0), Num(FALSE, 90, 0), Num(TRUE, 90, 0), Num(FALSE, 90, 1), Num(TRUE, 90, 1),
   Num(FALSE, 100, 0)}

CoordLongitudes ==
  {NotANumber, Num(FALSE, 0, 0), Num(TRUE, 0, 0), Num(TRUE, 0, 1), Num(FALSE, 9, 0),
   Num(FALSE, 100, 0), Num(FALSE, 180, 0), Num(TRUE, 180, 0), Num(FALSE, 180, 1),
   Num(FALSE, 200, 0)}

\* validateCoordinates is about to be called on some pair of values
InitCoord ==
  /\ visits = <<>>
  /\ badges = <<>>
  /\ ipfs = <<>>
  /\ metaStore = {}
  /\ nextTokenId = 0
  /\ hasClaimed = {}
  /\ tokenOwner = <<>>
  /\ lastCall = NoCall
  /\ mintLog = <<>>
  /\ now = 0
  /\ ticks = 0
  /\ req = [s \in Slots |-> Idle]
  /\ integrityChecked = {}
  /\ users = RegisteredUsers
  /\ approvals = {}
  /\ limiter = FreshLimiter
  /\ calc \in {[fn |-> "validateCoordinates", phase |-> "args", latitude |-> lat,
                 longitude |-> lon, result |-> FALSE] :
                  lat \in CoordLatitudes, lon \in CoordLongitudes}

ApplyValidateCoordinates ==
  /\ calc.fn = "validateCoordinates" /\ calc.phase = "args"
  /\ calc' = [calc EXCEPT !.phase = "done",
                           !.result = validateCoordinates(calc.latitude, calc.longitude)]
  /\ UNCHANGED <<dbVars, storeVars, ledgerVars, clockVars, req, integrityChecked, users, limiter>>

NextCoord == ApplyValidateCoordinates

SpecCoord == InitCoord /\ [][NextCoord]_vars

\* the number of tokens minted before minting stops
MaxTokens == 3

\* the number of transferBadge requests in flight at a time
MaxTransfers == 1
TransferSlots == 1..MaxTransfers

\* the badge row MintBadge_Create inserts for a mint that ran alone
MintedRow(userId, visitId, tokenId, at) ==
  [userId |-> userId, visitId |-> visitId, tokenId |-> tokenId,
   badgeId |-> generateBadgeId(visits[visitId]), txHash |-> tokenId + 1,
   metadataUri |-> <<storeMetadata(visitId, visits[visitId])>>, mintedAt |-> at]

\* both users have minted the badge of their verified visit at tag T1, one
\* call after the other
InitTransfer ==
  /\ ticks = 0
  /\ now = RecencyWindowMs + 1
  /\ visits = <<VisitAt(1, BodyMilan, 0, TRUE), VisitAt(2, BodyMilan, 0, TRUE)>>
  /\ ipfs = [c \in {visits[i].ipfsCid : i \in 1..Len(visits)} |-> c]
  /\ badges = <<MintedRow(1, 1, 0, now), MintedRow(2, 2, 1, now)>>
  /\ metaStore = {badges[i].metadataUri[1] : i \in 1..Len(badges)}
  /\ nextTokenId = 2
  /\ hasClaimed = {<<badges[i].badgeId, WalletOf(badges[i].userId)>> : i \in 1..Len(badges)}
  /\ tokenOwner = <<WalletOf(1), WalletOf(2)>>
  /\ mintLog = [i \in 1..Len(badges) |->
                  [to |-> WalletOf(badges[i].userId), badgeId |-> badges[i].badgeId,
                   tokenId |-> badges[i].tokenId]]
  /\ lastCall = [caller |-> OwnerAddress, to |-> WalletOf(2), badgeId |-> badges[2].badgeId,
                 result |-> "ok", tokenId |-> 1, claimedBefore |-> FALSE]
  /\ req = [s \in Slots |-> Idle]
  /\ integrityChecked = {1, 2}
  /\ users = RegisteredUsers
  /\ calc = NoCalc
  /\ approvals = {}
  /\ limiter = FreshLimiter

\* a claimBadge transaction of the backend signer that the contract accepts
OwnerClaimBadgeTx ==
  /\ nextTokenId < MaxTokens
  /\ \E to \in Addresses, badgeId \in LedgerBadgeIds :
       /\ claimBadgeOutcome(OwnerAddress, to, badgeId) = "ok"
       /\ claimBadge(OwnerAddress, to, badgeId)
  /\ UNCHANGED <<dbVars, storeVars, clockVars, req, integrityChecked, users, calc, approvals, limiter>>

NextTransfer ==
  \/ \E r \in TransferSlots : TransferBadge_FindBadge(r)
  \/ \E r \in TransferSlots : TransferBadge_OwnerOf(r)
  \/ \E r \in TransferSlots : TransferBadge_EstimateGas(r)
  \/ \E r \in TransferSlots : TransferBadge_Send(r)
  \/ \E r \in TransferSlots : TransferBadge_Update(r)
  \/ \E r \in Slots : Recycle(r)
  \/ SetApprovalForAllTx
  \/ TransferFromTx
  \/ OwnerClaimBadgeTx

SpecTransfer == InitTransfer /\ [][NextTransfer]_vars

\* user 1 holds a verified visit, user 2 a pending one
InitAccess ==
  /\ ticks = 0
  /\ now = RecencyWindowMs + 1
  /\ visits = <<VisitAt(1, BodyMilan, 0, TRUE), VisitAt(2, BodyOtherTag, 0, FALSE)>>
  /\ ipfs = [c \in {visits[i].ipfsCid : i \in 1..Len(visits)} |-> c]
  /\ badges = <<>>
  /\ metaStore = {}
  /\ nextTokenId = 0
  /\ hasClaimed = {}
  /\ tokenOwner = <<>>
  /\ lastCall = NoCall
  /\ mintLog = <<>>
  /\ req = [s \in Slots |-> Idle]
  /\ integrityChecked = {i \in 1..Len(visits) : visits[i].isVerified}
  /\ users = RegisteredUsers
  /\ calc = NoCalc
  /\ approvals = {}
  /\ limiter = FreshLimiter

\* verifyVisitForNFT and mintBadge requests of both users, side by side
NextAccess ==
  \/ \E r \in Slots : VerifyVisit_Find(r)
  \/ \E r \in Slots : VerifyVisit_Check(r)
  \/ \E r \in Slots : VerifyVisit_Update(r)
  \/ \E r \in Slots : MintBadge_FindVisit(r)
  \/ \E r \in Slots : MintBadge_FindBadge(r)
  \/ \E r \in Slots : MintBadge_StoreMetadata(r)
  \/ \E r \in Slots : MintBadge_HasClaimed(r)
  \/ \E r \in Slots : NFT_HasClaimed(r)
  \/ \E r \in Slots : NFT_NextTokenId(r)
  \/ \E r \in Slots : NFT_EstimateGas(r)
  \/ \E r \in Slots : NFT_Send(r)
  \/ \E r \in Slots : MintBadge_Create(r)
  \/ \E r \in Slots : Recycle(r)

SpecAccess == InitAccess /\ [][NextAccess]_vars

NextRate == RateLimit \/ RateTick

SpecRate == Init /\ [][NextRate]_vars

NextLedger == ClaimBadgeTx

SpecLedger == Init /\ [][NextLedger]_vars

(* ---------------------------------------------------------------------- *)
(* Properties                                                              *)
(* ---------------------------------------------------------------------- *)

\* C1: after any interleaving of createVisit calls, no two rows of the visits
\* table carry the same visitHash.
C1_UniqueFingerprint ==
  \A i, j \in 1..Len(visits) : i # j => visits[i].visitHash # visits[j].visitHash

\* a second insert of a fingerprint already in the table has been attempted
C1_Witness ==
  /\ Len(visits) >= 1
  /\ \E r \in Slots : IsDone(r, "createVisit") /\ req[r].loc.uniqueViolation

\* C2 (as amended): for every pair (address, badgeId) at most one claimBadge
\* transaction ever succeeds; every later transaction for that pair reverts
\* and mints no token - with "Already claimed" when the owner sends it, with
\* OwnableUnauthorizedAccount when any other account sends it.
C2_PairMintedOnce ==
  \A i, j \in 1..Len(mintLog) :
    i # j => <<mintLog[i].to, mintLog[i].badgeId>> # <<mintLog[j].to, mintLog[j].badgeId>>

C2_LaterCallReverts ==
  lastCall.claimedBefore =>
    /\ lastCall.result = IF lastCall.caller = OwnerAddress THEN "Already claimed"
                         ELSE "OwnableUnauthorizedAccount"
    /\ lastCall.tokenId = -1

C2_RevertMintsNothing ==
  lastCall'.result # "ok" =>
    /\ nextTokenId' = nextTokenId
    /\ tokenOwner' = tokenOwner
    /\ hasClaimed' = hasClaimed
    /\ mintLog' = mintLog

\* C2 (as amended), the three parts together: one successful claim per pair,
\* a later call for a claimed pair reverts, and a reverted call mints nothing.
C2_OneClaimPerPair ==
  /\ [](C2_PairMintedOnce /\ C2_LaterCallReverts /\ Len(mintLog) = nextTokenId)
  /\ [][C2_RevertMintsNothing]_vars

\* the owner has sent a second claimBadge for a pair already claimed
C2_Witness ==
  /\ lastCall.claimedBefore
  /\ lastCall.caller = OwnerAddress
  /\ lastCall.result = "Already claimed"
  /\ nextTokenId >= 1

\* C2 as stated: every later call for a claimed pair reverts with "Already claimed"
C2_Original ==
  lastCall.claimedBefore => lastCall.result = "Already claimed"

\* two requests ran concurrently for the same verified visit of the same user
ConcurrentMints(r1, r2) ==
  /\ r1 # r2
  /\ IsDone(r1, "mintBadge") /\ IsDone(r2, "mintBadge")
  /\ r2 \in req[r1].ov
  /\ req[r1].userId = req[r2].userId
  /\ req[r1].loc.visitId = req[r2].loc.visitId
  /\ findVisit(req[r1].loc.visitId, req[r1].userId) # {}
  /\ visits[req[r1].loc.visitId].isVerified

Succeeded(r) == req[r].res.status \in {200, 201}

\* C3: two concurrent mintBadge calls for the same (userId, visitId) leave
\* exactly one badge row with a minted token, and both calls resolve to that
\* token's reference; neither returns an error.
C3_ClaimIdempotence ==
  \A r1, r2 \in Slots :
    ConcurrentMints(r1, r2) =>
      /\ Cardinality(findBadge(req[r1].loc.visitId, req[r1].userId)) = 1
      /\ Succeeded(r1) /\ Succeeded(r2)
      /\ req[r1].loc.tokenId = req[r2].loc.tokenId
      /\ \A i \in findBadge(req[r1].loc.visitId, req[r1].userId) :
           badges[i].tokenId = req[r1].loc.tokenId

\* two createVisit calls of one user for one tag ran concurrently
ConcurrentCreates(r1, r2) ==
  /\ r1 # r2
  /\ IsDone(r1, "createVisit") /\ IsDone(r2, "createVisit")
  /\ r2 \in req[r1].ov
  /\ req[r1].userId = req[r2].userId
  /\ req[r1].loc.nfcTagId = req[r2].loc.nfcTagId

\* C4: among concurrent createVisit calls for the same (userId, nfcTagId) at
\* most one creates a visit record.
C4_AtMostOneSuccess ==
  \A r1, r2 \in Slots :
    ConcurrentCreates(r1, r2) => ~(req[r1].res.status = 201 /\ req[r2].res.status = 201)

\* the token the ledger minted for a pair
OnChainTokens(to, badgeId) ==
  {mintLog[i].tokenId : i \in {k \in 1..Len(mintLog) :
                                 mintLog[k].to = to /\ mintLog[k].badgeId = badgeId}}

\* the local badge rows agree with the ledger about the user's claim
Reconciled(userId, badgeId) ==
  \E i \in findClaim(userId, badgeId) : badges[i].tokenId \in OnChainTokens(WalletOf(userId), badgeId)

\* C5: a mintBadge call whose claimed check passed and whose mint the ledger
\* then rejected as already claimed ends as a success: the local badge row is
\* reconciled with the on-chain claim and no error is returned.
C5_RaceIsSuccess ==
  \A r \in Slots :
    (IsDone(r, "mintBadge") /\ req[r].loc.passedCheck /\ req[r].loc.ledgerRejected) =>
      /\ Succeeded(r)
      /\ Reconciled(req[r].userId, req[r].loc.badgeId)

\* C6: when the ledger holds a claim for (address, category), no local badge
\* row exists for it and no other request is in flight that could still write
\* it, a mintBadge call of that user for that visit ends with a local row
\* carrying the on-chain token; and no pair is minted twice.
C6_SelfHeal ==
  /\ \A r \in Slots :
       (IsDone(r, "mintBadge") /\ req[r].loc.claimedAtStart) =>
          Reconciled(req[r].userId, generateBadgeId(visits[req[r].loc.visitId]))
  /\ \A i, j \in 1..Len(mintLog) :
       i # j => <<mintLog[i].to, mintLog[i].badgeId>> # <<mintLog[j].to, mintLog[j].badgeId>>

\* C7: a createVisit call whose insert hits a fingerprint already in the table
\* ends with a conflict outcome (409), not the generic failure (500), and
\* creates no record.
C7_TypedDuplicateFingerprint ==
  \A r \in Slots :
    (IsDone(r, "createVisit") /\ req[r].loc.uniqueViolation) =>
      /\ req[r].res.status = 409
      /\ req[r].res.error # "Failed to create visit"
      /\ req[r].loc.visitId = 0

\* C8: after verifyVisitForNFT found the recomputed fingerprint different from
\* the stored one, the row's status is "flagged".
C8_MismatchFlags ==
  \A r \in Slots :
    (IsDone(r, "verifyVisitForNFT") /\ req[r].loc.mismatch) =>
      /\ req[r].res.status # 200
      /\ visits[req[r].loc.id].status = "flagged"

\* C9: after every successful verifyVisitForNFT the row has status "verified",
\* isVerified true and verifiedAt set, together.
C9_VerifiedTogether ==
  \A r \in Slots :
    (IsDone(r, "verifyVisitForNFT") /\ req[r].res.status = 200) =>
      /\ visits[req[r].loc.id].status = "verified"
      /\ visits[req[r].loc.id].isVerified
      /\ visits[req[r].loc.id].verifiedAt # NoTime

\* C10: a row has isVerified true only if a verifyVisitForNFT call earlier
\* found its stored payload to reproduce its fingerprint.
C10_VerifiedOnlyAfterCheck ==
  \A i \in 1..Len(visits) : visits[i].isVerified => i \in integrityChecked

\* one visit has been verified while another request was refused for a mismatch
C10_Witness ==
  /\ \E i \in 1..Len(visits) : visits[i].isVerified
  /\ \E r \in Slots : IsDone(r, "verifyVisitForNFT") /\ req[r].loc.mismatch

\* C11: in every step, for every row of the visits table, isVerified does not
\* go back from true to false and a verifiedAt already written keeps its value,
\* also when verifyVisitForNFT calls on one visit repeat or overlap
C11_VerifiedOnce ==
  [][\A i \in 1..Len(visits) :
       /\ visits[i].isVerified => visits'[i].isVerified
       /\ visits[i].verifiedAt # NoTime => visits'[i].verifiedAt = visits[i].verifiedAt]_vars

\* the visit a mintBadge call in slot r names exists, belongs to the caller and
\* has isVerified false
MintOfUnverified(r) ==
  /\ req[r].op = "mintBadge"
  /\ findVisit(req[r].loc.visitId, req[r].userId) # {}
  /\ ~visits[req[r].loc.visitId].isVerified

PastClaimQuery(r) ==
  /\ req[r].op = "mintBadge"
  /\ \/ req[r].pc \in {"nft_nextTokenId", "nft_estimateGas", "nft_send", "mb_create"}
     \/ req[r].loc.txHash # 0
     \/ req[r].loc.timedOut
     \/ req[r].loc.ledgerRejected

\* the step sends the claimBadge transaction of the call in slot r
SendsMint(r) ==
  /\ req[r].op = "mintBadge"
  /\ req[r].pc = "nft_send"
  /\ req'[r].pc # "nft_send"

\* every transaction is sent by a call whose own claim query for the same
\* (address, badgeId) found the pair unclaimed, and every mint is such a send
C13_SendAfterQuery ==
  /\ \A r \in Slots : SendsMint(r) =>
        /\ req[r].loc.queriedUnclaimed
        /\ lastCall'.to = WalletOf(req[r].userId)
        /\ lastCall'.badgeId = req[r].loc.badgeId
  /\ mintLog' # mintLog => \E r \in Slots : SendsMint(r)

C14_SecondVisitRefused ==
  /\ \A r \in Slots :
        (req[r].op = "mintBadge" /\ req[r].loc.claimedViaOther) =>
           /\ ~PastClaimQuery(r)
           /\ req[r].pc = "done" =>
                 req[r].res = [status |-> 409, error |-> "Badge type already claimed by this user"]
  /\ \A k1, k2 \in 1..Len(mintLog) :
        (mintLog[k1].to = mintLog[k2].to /\ mintLog[k1].badgeId = mintLog[k2].badgeId) => k1 = k2

\* user 1 minted through one visit at tag T1 and was refused through the other
C14_Witness ==
  \E r \in Slots :
    /\ IsDone(r, "mintBadge") /\ req[r].loc.claimedViaOther
    /\ req[r].res.status = 409
    /\ \E i \in 1..Len(badges) :
          /\ badges[i].userId = req[r].userId
          /\ badges[i].visitId # req[r].loc.visitId
          /\ visits[badges[i].visitId].nfcTagId = visits[req[r].loc.visitId].nfcTagId

\* C15: any two rows of the visits table for the same NFC tag derive the same
\* badge category id
C15_SameTagSameCategory ==
  \A i, j \in 1..Len(visits) :
    visits[i].nfcTagId = visits[j].nfcTagId =>
      generateBadgeId(visits[i]) = generateBadgeId(visits[j])

C17_AccuracyEnforced ==
  \A r \in Slots :
    (/\ IsDone(r, "createVisit")
     /\ req[r].loc.accuracy.given
     /\ ~validateGPSAccuracy(req[r].loc.accuracy, MaxAccuracyMeters)) =>
       /\ req[r].res.status = 400
       /\ req[r].loc.visitId = 0

\* C18: once a login with a given (walletAddress, message, signature) has
\* succeeded, a later login presenting the same message and signature is
\* rejected
C18_ChallengeUsedOnce ==
  \A r1, r2 \in Slots :
    (/\ r1 # r2
     /\ IsDone(r1, "login") /\ IsDone(r2, "login")
     /\ r1 \notin req[r2].ov
     /\ req[r1].loc.message = req[r2].loc.message
     /\ req[r1].loc.signature = req[r2].loc.signature
     /\ req[r1].res.status = 200) =>
       req[r2].res.status # 200

\* C19: createVisitHash returns the same hash for the same data, and the hash
\* does not change when the latitude or the longitude is replaced by its value
\* rounded to 8 decimal places
C19_RoundingInvariant ==
  (calc.fn = "createVisitHash" /\ calc.phase = "done") =>
     /\ calc.first = calc.second
     /\ calc.roundedLat = calc.first
     /\ calc.roundedLon = calc.first

\* the integrity check of the call in slot r has run / has answered true
IntegrityChecked(r) ==
  /\ req[r].op = "verifyVisitForNFT"
  /\ req[r].pc = "vv_update" \/ (req[r].pc = "done" /\ req[r].loc.checked)

IntegrityPassed(r) ==
  req[r].pc = "vv_update" \/ (req[r].pc = "done" /\ req[r].res.status = 200)

\* C20 (as amended): for an admitted record the integrity check answers true
\* when the payload read back is exactly what was stored, and false whenever
\* the userId, the nfcTagId, the latitude or longitude as written with 8
\* decimals, or the instant of the timestamp in the payload has changed
C20_IntegrityOfFingerprintedFields ==
  \A r \in Slots : IntegrityChecked(r) =>
    /\ req[r].loc.exact => IntegrityPassed(r)
    /\ ~req[r].loc.sameFields => ~IntegrityPassed(r)

\* one check passed on the untouched payload, another failed on a payload
\* whose tag had been changed
C20_Witness ==
  /\ \E r \in Slots : IntegrityChecked(r) /\ req[r].loc.exact /\ IntegrityPassed(r)
  /\ \E r \in Slots : IntegrityChecked(r) /\ ~req[r].loc.sameFields /\ ~IntegrityPassed(r)

\* C20 as stated: the check answers true exactly when the payload read back
\* is unmodified
C20_Original ==
  \A r \in Slots : IntegrityChecked(r) =>
    (IntegrityPassed(r) <=> req[r].loc.exact)

\* the magnitude of x is at most d degrees
AtMostDegrees(x, d) == x.deg < d \/ (x.deg = d /\ x.frac = 0)

C22_NonOwnerReverts ==
  lastCall'.caller # OwnerAddress =>
    /\ lastCall'.result = "OwnableUnauthorizedAccount"
    /\ UNCHANGED <<nextTokenId, tokenOwner, hasClaimed, mintLog>>

\* C22: only the contract owner can mint: every claimBadge call from another
\* account reverts with OwnableUnauthorizedAccount and leaves nextTokenId, the
\* token owners and every claimed flag as they were, so every token was minted
\* by a call of the owner
C22_OnlyOwnerMints ==
  /\ [](lastCall.result = "ok" => lastCall.caller = OwnerAddress)
  /\ [][C22_NonOwnerReverts]_vars

\* tokens exist, and the last call, sent by a user for an unclaimed pair,
\* was turned away
C22_Witness ==
  /\ lastCall.caller \in Users
  /\ lastCall.result = "OwnableUnauthorizedAccount"
  /\ ~lastCall.claimedBefore
  /\ nextTokenId > 0

\* the contract's counter, owners and log agree: token ids are 0, 1, 2, ... in
\* the order of the successful calls
C23_CounterMatchesMints ==
  /\ nextTokenId = Len(mintLog)
  /\ Len(tokenOwner) = Len(mintLog)
  /\ \A k \in 1..Len(mintLog) : mintLog[k].tokenId = k - 1

\* a successful call mints token id nextTokenId to its `to` address and
\* advances the counter by one; a reverted call leaves the counter alone
C23_CallStep ==
  IF mintLog' # mintLog
  THEN /\ lastCall'.result = "ok"
       /\ lastCall'.tokenId = nextTokenId
       /\ nextTokenId' = nextTokenId + 1
       /\ tokenOwner' = Append(tokenOwner, lastCall'.to)
  ELSE nextTokenId' = nextTokenId

\* C23: nextTokenId is 0 at deployment and always equals the number of
\* successful claimBadge calls; the k-th successful call (from 0) mints token
\* id k to its `to` address, no token id is used twice, and a reverted call
\* leaves nextTokenId unchanged
C23_TokenIdsCount ==
  /\ nextTokenId = 0
  /\ []C23_CounterMatchesMints
  /\ [][C23_CallStep]_vars

\* two tokens have been minted and the last call reverted
C23_Witness ==
  /\ nextTokenId = 2
  /\ tokenOwner = <<mintLog[1].to, mintLog[2].to>>
  /\ lastCall.result = "Already claimed"

\* a createVisit call that was answered, but not with 201
RejectedCreateVisit(r) ==
  /\ IsDone(r, "createVisit")
  /\ req[r].res.status # 201

\* C24: a createVisit call that is rejected, for invalid coordinates, for a
\* recent visit to the tag or for a fingerprint that is already in the table,
\* has added nothing to the content store and no row to the visits table
C24_RejectedWritesNothing ==
  \A r \in Slots :
    RejectedCreateVisit(r) =>
      /\ req[r].loc.added = {}
      /\ req[r].loc.visitId = 0

\* C25: a mintBadge call has persisted its metadata to the content store only
\* if the ledger's claimed check for (user, badge id) has passed in that call;
\* a call answered 'Badge type already claimed by this user' has persisted
\* nothing
C25_MetadataAfterClaimedCheck ==
  \A r \in Slots :
    (req[r].op = "mintBadge" /\ req[r].loc.wroteStore) => req[r].loc.passedCheck

\* the id of the token the transaction txHash minted
MintedBy(txHash) == mintLog[txHash].tokenId

\* C26: the tokenId NFTService.mintBadge returns, and the tokenId of the Badge
\* row mintBadge inserts, is the id of the token that call's transaction
\* minted, however the mint requests of different users interleave
C26_TokenIdIsMintedToken ==
  /\ \A r \in Slots :
       (req[r].op = "mintBadge" /\ req[r].loc.txHash # 0) =>
          req[r].loc.tokenId = MintedBy(req[r].loc.txHash)
  /\ \A i \in 1..Len(badges) : badges[i].tokenId = MintedBy(badges[i].txHash)

\* the tokens of a badge id that an address holds
TokensHeld(address, badgeId) ==
  {t \in TokenIds : ownerOf(t) = address /\ CategoryOf(t) = badgeId}

\* C27: after any sequence of mints and transfers, no address holds more than
\* one token of the same badge id
C27_OneTokenPerCategory ==
  \A a \in Addresses, t1 \in TokenIds, t2 \in TokenIds :
    (ownerOf(t1) = a /\ ownerOf(t2) = a /\ CategoryOf(t1) = CategoryOf(t2)) => t1 = t2

\* C28: when a transferBadge call answers 200, its Badge row names the user
\* whose wallet the call's transaction made the token's on-chain owner, never
\* the user whose wallet gave the token away
C28_RowFollowsToken ==
  \A r \in Slots :
    (IsDone(r, "transferBadge") /\ req[r].res.status = 200) => req[r].loc.rowOwnerHoldsToken

\* the visit id a verifyVisitForNFT or mintBadge request names
NamedVisit(r) ==
  IF req[r].op = "mintBadge" THEN req[r].loc.visitId ELSE req[r].loc.id

\* slot r holds a verifyVisitForNFT or mintBadge request that names a visit
\* of another user
NamesForeignVisit(r) ==
  /\ req[r].op \in {"verifyVisitForNFT", "mintBadge"}
  /\ NamedVisit(r) \in 1..Len(visits)
  /\ visits[NamedVisit(r)].userId # req[r].userId

\* such a request is answered 404 at once
C29_ForeignVisitNotFound ==
  \A r \in Slots :
    NamesForeignVisit(r) =>
      /\ req[r].pc = "done"
      /\ req[r].res = [status |-> 404, error |-> "Visit not found"]

\* the step that takes such a request changes no table, no store and no
\* contract storage
C29_ForeignVisitChangesNothing ==
  \A r \in Slots :
    (req[r].op = "idle" /\ NamesForeignVisit(r)') =>
      UNCHANGED <<visits, badges, ipfs, metaStore, ledgerVars, integrityChecked>>

\* C29: verifyVisitForNFT and mintBadge act only on a visit of the
\* authenticated caller: a request naming another user's visit is answered 404
\* and changes no visit row, creates no Badge row, writes nothing to the
\* content store and sends nothing to the ledger
C29_OwnVisitsOnly ==
  /\ []C29_ForeignVisitNotFound
  /\ [][C29_ForeignVisitChangesNothing]_vars

\* user 2 asked to mint on user 1's verified visit and user 1 asked to verify
\* user 2's pending visit; both were turned away
C29_Witness ==
  \E r, s \in Slots :
    /\ NamesForeignVisit(r) /\ req[r].op = "mintBadge"
    /\ visits[NamedVisit(r)].isVerified
    /\ NamesForeignVisit(s) /\ req[s].op = "verifyVisitForNFT"
    /\ ~visits[NamedVisit(s)].isVerified

\* the number of a user's requests passed on in the interval (t - windowMs, t]
PassedWithin(userId, t) ==
  Cardinality({k \in 1..Len(limiter.passed[userId]) :
                 /\ limiter.passed[userId][k] > t - RateWindowMs
                 /\ limiter.passed[userId][k] <= t})

\* no interval (t - windowMs, t] holds more than maxRequests passed requests
\* of one user
C30_AtMostMaxPerWindow ==
  \A userId \in Users, t \in 0..(MaxRateTime + RateWindowMs) :
    PassedWithin(userId, t) <= RateMaxRequests

\* a request answered 429 leaves the Map as it was
C30_RefusedNotRecorded ==
  limiter'.last.status = 429 /\ limiter'.served # limiter.served =>
    limiter'.requests = limiter.requests /\ limiter'.passed = limiter.passed

\* C30: for each authenticated user, the middleware passes at most maxRequests
\* of that user's requests on to next() within any interval of length
\* windowMs that is open at its start, (t - windowMs, t], and a request
\* answered 429 is not added to the user's history
C30_RateLimited ==
  /\ []C30_AtMostMaxPerWindow
  /\ [][C30_RefusedNotRecorded]_vars

\* a user was refused, and later, the window having moved on, let through
\* again
C30_Witness ==
  \E userId \in Users :
    /\ Len(limiter.passed[userId]) > RateMaxRequests
    /\ limiter.last = [userId |-> userId, status |-> 429, at |-> now]
    /\ userId \in DOMAIN limiter.requests

\* the number of a user's requests passed on in the interval [t - windowMs, t]
PassedWithinClosed(userId, t) ==
  Cardinality({k \in 1..Len(limiter.passed[userId]) :
                 /\ limiter.passed[userId][k] >= t - RateWindowMs
                 /\ limiter.passed[userId][k] <= t})

\* C30 as stated, for every interval of length windowMs, its two end points
\* included
C30_Original ==
  \A userId \in Users, t \in 0..(MaxRateTime + RateWindowMs) :
    PassedWithinClosed(userId, t) <= RateMaxRequests

====
